---------------------------- MODULE Spec2Model ----------------------------
(***************************************************************************)
(* A model of codedriver's change-application pipeline:                    *)
(*   - LLMAgent._parse_file_changes / process_changes   (agent.py)         *)
(*   - _process_changes, _setup_preview_dir, _generate_patch_file,         *)
(*     _create_backup, apply_changes_to_preview, apply_changes_to_working, *)
(*     show_directory_diff                               (testing.py)      *)
(*   - the selection loops of cli/change.py execute and codedriver.py      *)
(*     change.                                                             *)
(*                                                                         *)
(* Text is a sequence of lines (the string split at "\n"); a line is a     *)
(* token: a FILE header, a header lacking a field, the end delimiter line, *)
(* a "### [path]" section header, or plain text given character by         *)
(* character.  A path is a record of an absolute flag and its components;  *)
(* the file system is a function from absolute file paths to contents.     *)
(***************************************************************************)
EXTENDS Integers, Sequences, FiniteSets, TLC

VARIABLES
    text,            \* the LLM response, response["content"][0]["text"]
    fs,              \* the file system: absolute file path -> content
    pc,              \* position of the run
    entry,           \* which entry point runs
    agent_changes,   \* the changes _parse_file_changes returned
    agent_modified,  \* response["modified_files"] of process_changes
    agent_src,       \* history: the header line each entry of agent_modified came from
    warnings,        \* paths named by "Content verification failed" warnings
    staged,          \* history: the file writes done by staging
    preview_dir,     \* preview_dir returned by apply_changes_to_preview
    modified_files,  \* modified_files returned by apply_changes_to_preview
    files_to_modify, \* the list the selection loop offers
    preview_success, \* preview_success returned by apply_changes_to_preview
    io_failed,       \* history: a copy or a write raised while the preview was built
    test_cmds,       \* test_cmds returned by apply_changes_to_preview
    tests_run,       \* history: the test commands run, in order, each with its exit status
    choice,          \* the input read at the prompt last
    selected_files,  \* the selection handed to apply_changes_to_working
    backup,          \* _create_backup: whether it ran, and the directory it returned
    patch,           \* the files the generated patch file holds a diff of
    diff_error,      \* history: a run of diff ended with a status above 1
    patch_rc,        \* result.returncode of the run of patch, once it ran
    result,          \* what apply_changes_to_working / apply_changes returned
    start_tree,      \* history: the working tree when the run started
    earlier,         \* history: the preview directory an earlier run left behind
    earlier_backup,  \* history: the snapshot an earlier apply attempt left behind
    apply_tree,      \* history: the working tree when apply_changes_to_working was called
    at_apply,        \* history: the preview workspace when apply_changes_to_working was
                     \* called, and the snapshot directory when _create_backup returned
    registry,        \* the content of the registry file ~/.codedriver/.llms_registry.json
    lock,            \* the process holding the FileLock of the registry, 0 when free
    rproc,           \* each process's position in its registry call, and what it loaded
    now,             \* the clock, datetime.utcnow(), in seconds
    send,            \* the calls of LLMAgent._send_message made, and the last one's course
    retry            \* a call of a function wrapped by retry_with_backoff

agent_vars == <<agent_changes, agent_modified, agent_src, warnings>>
stage_vars == <<preview_dir, modified_files, files_to_modify, preview_success, io_failed,
               test_cmds, tests_run>>
apply_vars == <<selected_files, backup, patch, diff_error, patch_rc, result, apply_tree,
               at_apply>>

pipeline_vars ==
    <<text, fs, pc, entry, agent_vars, staged, stage_vars, choice, apply_vars, start_tree,
      earlier, earlier_backup>>

llm_vars == <<registry, lock, rproc, now, send, retry>>

vars == <<pipeline_vars, llm_vars>>

----------------------------------------------------------------------------
(* Bounds *)

\* number of FILE blocks an enumerated response holds at most
MaxBlocks == 2

----------------------------------------------------------------------------
(* Strings *)

Whitespace == {" "}

NoPath == [abs |-> FALSE, comps |-> <<>>]

Txt(chars) == [k |-> "txt", op |-> "", path |-> NoPath, hash |-> <<>>, s |-> chars]
EndLine == [k |-> "end", op |-> "", path |-> NoPath, hash |-> <<>>, s |-> <<>>]
BadHdr == [k |-> "bad", op |-> "", path |-> NoPath, hash |-> <<>>, s |-> <<>>]
Hdr(op, path, hash) == [k |-> "hdr", op |-> op, path |-> path, hash |-> hash, s |-> <<>>]
Sec(path) == [k |-> "sec", op |-> "", path |-> path, hash |-> <<>>, s |-> <<>>]

\* the empty string, split at "\n"
EmptyStr == <<Txt(<<>>)>>

\* a line str.strip() removes whole: nothing but whitespace
IsBlank(line) == line.k = "txt" /\ \A i \in 1..Len(line.s) : line.s[i] \in Whitespace

RECURSIVE LStripChars(_)
LStripChars(cs) ==
    IF cs # <<>> /\ Head(cs) \in Whitespace THEN LStripChars(Tail(cs)) ELSE cs

RECURSIVE RStripChars(_)
RStripChars(cs) ==
    IF cs # <<>> /\ cs[Len(cs)] \in Whitespace
    THEN RStripChars(SubSeq(cs, 1, Len(cs) - 1)) ELSE cs

LStripLine(line) == IF line.k = "txt" THEN Txt(LStripChars(line.s)) ELSE line
RStripLine(line) == IF line.k = "txt" THEN Txt(RStripChars(line.s)) ELSE line

\* str.strip() of the string whose lines are `lines`
Strip(lines) ==
    LET keep == {i \in 1..Len(lines) : ~IsBlank(lines[i])}
    IN  IF keep = {} THEN EmptyStr
        ELSE LET lo == CHOOSE i \in keep : \A j \in keep : i <= j
                 hi == CHOOSE i \in keep : \A j \in keep : j <= i
                 mid == SubSeq(lines, lo, hi)
             IN  IF lo = hi
                 THEN <<LStripLine(RStripLine(mid[1]))>>
                 ELSE <<LStripLine(mid[1])>> \o SubSeq(mid, 2, Len(mid) - 1)
                      \o <<RStripLine(mid[Len(mid)])>>

----------------------------------------------------------------------------
(* _hash_content: md5(content)[:8], eight hex digits.  md5 is modelled by   *)
(* a positional code of the characters, truncated to the same width.       *)

\* hexdigest()[:8]
HashLen == 8

ZeroHash == [i \in 1..HashLen |-> 0]

CharCode(c) == IF c = "x" THEN 1 ELSE IF c = " " THEN 2 ELSE IF c = "o" THEN 3 ELSE 4

LineCodes(line) ==
    IF line.k = "txt" THEN [i \in 1..Len(line.s) |-> CharCode(line.s[i])]
    ELSE IF line.k = "end" THEN <<6>>
    ELSE IF line.k = "bad" THEN <<7>>
    ELSE IF line.k = "sec" THEN <<8>>
    ELSE IF line.op = "CREATE" THEN <<9>>
    ELSE IF line.op = "MODIFY" THEN <<10>>
    ELSE <<11>>

\* the hex digits of a string: those of its lines, 5 for each "\n"
RECURSIVE Codes(_)
Codes(lines) ==
    IF lines = <<>> THEN <<>>
    ELSE IF Len(lines) = 1 THEN LineCodes(lines[1])
    ELSE LineCodes(lines[1]) \o <<5>> \o Codes(Tail(lines))

\* the last HashLen digits of the code: the code modulo 16^HashLen
_hash_content(content) ==
    LET cs == ZeroHash \o Codes(content)
    IN  SubSeq(cs, Len(cs) - HashLen + 1, Len(cs))

\* a declared hash no enumerated content has
WrongHash == [i \in 1..HashLen |-> 15]

----------------------------------------------------------------------------
(* _parse_file_changes: the regular expression                             *)
(*   S \s*FILE\s+(MODIFY|CREATE|DELETE)\s+(\S+)\s+([a-f0-9]{8})\s*\n        *)
(*   (.*?)\n\s*E \s*FILE      under re.DOTALL, scanned by re.finditer.      *)
(* After the hash the greedy \s* takes every blank line, so the body       *)
(* starts at the first line that is not blank (or at the last line), and   *)
(* the lazy body ends before the first end-delimiter line after that line. *)
(* Only when there is none is the greedy \s* given back, and an end line   *)
(* that follows at least one blank line closes an empty body.              *)

\* first line after the header i that is not blank, or the last line
BodyStart(L, i) ==
    LET n == Len(L)
        nb == {k \in (i + 1)..n : ~IsBlank(L[k])}
    IN  IF nb = {} THEN n ELSE CHOOSE k \in nb : \A m \in nb : k <= m

\* the match of the pattern at header line i: [ok, last, content]
MatchAt(L, i) ==
    LET n == Len(L)
        none == [ok |-> FALSE, last |-> i, content |-> EmptyStr]
    IN  IF L[i].k # "hdr" \/ i >= n THEN none
        ELSE LET kp == BodyStart(L, i)
                 ends == {j \in (kp + 1)..n : L[j].k = "end"}
             IN  IF ends # {}
                 THEN LET j == CHOOSE e \in ends : \A m \in ends : e <= m
                      IN  [ok |-> TRUE, last |-> j,
                           content |-> Strip(SubSeq(L, kp, j - 1))]
                 ELSE IF L[kp].k = "end" /\ kp >= i + 2
                 THEN [ok |-> TRUE, last |-> kp, content |-> EmptyStr]
                 ELSE none

\* str.lower() of the operation word of a header
Lower(op) ==
    IF op = "CREATE" THEN "create" ELSE IF op = "MODIFY" THEN "modify"
    ELSE IF op = "DELETE" THEN "delete" ELSE op

\* A change carries, beside the four fields of the source, the lines of the
\* text it was matched on (line: its header, last: its end line).
RECURSIVE ScanFrom(_, _)
ScanFrom(L, i) ==
    IF i > Len(L) THEN <<>>
    ELSE LET m == MatchAt(L, i)
         IN  IF m.ok
             THEN <<[operation |-> Lower(L[i].op), filepath |-> L[i].path,
                     hash |-> L[i].hash, content |-> m.content,
                     line |-> i, last |-> m.last]>>
                  \o ScanFrom(L, m.last + 1)
             ELSE ScanFrom(L, i + 1)

_parse_file_changes(content) == ScanFrom(content, 1)

----------------------------------------------------------------------------
(* Paths and the file system *)

Rel(comps) == [abs |-> FALSE, comps |-> comps]
Abs(comps) == [abs |-> TRUE, comps |-> comps]

\* the working directory ".", the temporary directory, the directories in it
Cwd == <<"w">>
TmpDir == <<"tmp">>
AgentPreviewDir == TmpDir \o <<"codedriver_preview_r">>
PreviewDir == TmpDir \o <<"codedriver_preview">>

RECURSIVE Normalize(_, _)
Normalize(base, comps) ==
    IF comps = <<>> THEN base
    ELSE IF Head(comps) = ".."
    THEN Normalize(IF base = <<>> THEN base ELSE SubSeq(base, 1, Len(base) - 1),
                   Tail(comps))
    ELSE Normalize(Append(base, Head(comps)), Tail(comps))

\* os.path.join(dir, p) as the operating system resolves it
Join(dir, p) == IF p.abs THEN Normalize(<<>>, p.comps) ELSE Normalize(dir, p.comps)

IsUnder(dir, f) == Len(f) > Len(dir) /\ SubSeq(f, 1, Len(dir)) = dir

Exists(files, f) == f \in DOMAIN files

WriteFile(files, f, content) ==
    [g \in DOMAIN files \cup {f} |-> IF g = f THEN content ELSE files[g]]

FilesUnder(files, dir) == {f \in DOMAIN files : IsUnder(dir, f)}

WorkingTree(files) == [f \in FilesUnder(files, Cwd) |-> files[f]]

----------------------------------------------------------------------------
(* LLMAgent.process_changes, from the parsed changes on (agent.py 302-330) *)

\* a write done by staging: who wrote, the file, what, and the line of the
\* text that named the file
StagedWrite(who, f, content, line) ==
    [who |-> who, file |-> f, content |-> content, line |-> line]

\* a test that takes every target to exist
DeleteTargetAlways(files, filepath) == TRUE

\* os.path.exists(filepath), the path taken from the working directory
DeleteTargetExists(files, filepath) == Exists(files, Join(Cwd, filepath))

\* one pass of the loop body over change c, on the accumulated result r
ProcessOne(r, c) ==
    LET content == IF c.operation # "delete" THEN c.content ELSE EmptyStr
        preview_path == Join(AgentPreviewDir, c.filepath)
        listed == [r EXCEPT !.modified = Append(@, <<c.filepath, c.operation>>),
                            !.src = Append(@, c.line)]
    IN  IF content # EmptyStr /\ _hash_content(content) # c.hash
        THEN [r EXCEPT !.warnings = Append(@, c.filepath)]
        ELSE IF c.operation = "delete"
        THEN IF DeleteTargetExists(r.fs, c.filepath) THEN listed ELSE r
        ELSE IF content # EmptyStr
        THEN [listed EXCEPT
                 !.fs = WriteFile(@, preview_path, content),
                 !.written = @ \cup {StagedWrite("agent", preview_path, content, c.line)}]
        ELSE r

RECURSIVE ProcessLoop(_, _)
ProcessLoop(r, cs) ==
    IF cs = <<>> THEN r ELSE ProcessLoop(ProcessOne(r, Head(cs)), Tail(cs))

process_changes(files, changes) ==
    ProcessLoop([fs |-> files, modified |-> <<>>, src |-> <<>>, warnings |-> <<>>,
                 written |-> {}], changes)

----------------------------------------------------------------------------
(* testing.py: copying, the backup, the preview directory *)

BackupDir == TmpDir \o <<"codedriver_backup_ts">>

\* _ignore_patterns: a .git entry, at any depth
IsIgnored(f) == \E i \in 1..Len(f) : f[i] = ".git"

Moved(f, src, dst) == dst \o SubSeq(f, Len(src) + 1, Len(f))

\* the files shutil.copytree(src, dst, ignore=_ignore_patterns) copies
Copied(files, src) == {f \in FilesUnder(files, src) : ~IsIgnored(f)}

\* `files` after the files S below src are copied below dst
CopyFiles(files, src, dst, S) ==
    [g \in DOMAIN files \cup {Moved(f, src, dst) : f \in S} |->
        IF \E f \in S : Moved(f, src, dst) = g
        THEN files[CHOOSE f \in S : Moved(f, src, dst) = g]
        ELSE files[g]]

\* shutil.rmtree(dir)
RemoveTree(files, dir) == [f \in DOMAIN files \ FilesUnder(files, dir) |-> files[f]]

\* a failed copy stops at any point: the files copied before it
CopyOutcomes(files, src, ok) ==
    IF ok THEN {Copied(files, src)} ELSE SUBSET Copied(files, src)

\* a backup that names its directory and copies nothing into it
CreateBackupEmpty(files, S, ok) ==
    [fs |-> files, dir |-> IF ok THEN BackupDir ELSE <<>>]

\* _create_backup: the directory it returns ("" after an exception) and the
\* file system it leaves, S the files copied
_create_backup(files, S, ok) ==
    [fs |-> CopyFiles(files, Cwd, BackupDir, S),
     dir |-> IF ok THEN BackupDir ELSE <<>>]

\* _setup_preview_dir, S the files copied
_setup_preview_dir(files, S) ==
    CopyFiles(RemoveTree(files, PreviewDir), Cwd, PreviewDir, S)

----------------------------------------------------------------------------
(* testing.py: _process_changes, the "### [path]" form *)

\* "\n".join(current_content)
JoinLines(content) == IF content = <<>> THEN EmptyStr ELSE content

\* the lines str.strip() drops in front of the first line it keeps
StripOffset(lines) ==
    LET keep == {i \in 1..Len(lines) : ~IsBlank(lines[i])}
    IN  IF keep = {} THEN 0 ELSE (CHOOSE i \in keep : \A j \in keep : i <= j) - 1

\* the text a test command line starts with, taken as one character
TestCmdPrefix == "\"\"\"TEST CMD:"

\* content_line.startswith('"""TEST CMD:')
IsTestCmd(line) == line.k = "txt" /\ line.s # <<>> /\ line.s[1] = TestCmdPrefix

\* content_line.split(":", 1)[1].strip()
CmdOf(line) == LStripChars(RStripChars(Tail(line.s)))

\* the commands of the test command lines of a file's content, in order
RECURSIVE CmdsOf(_)
CmdsOf(content) ==
    IF content = <<>> THEN <<>>
    ELSE (IF IsTestCmd(Head(content)) THEN <<CmdOf(Head(content))>> ELSE <<>>)
         \o CmdsOf(Tail(content))

\* the write of the file collected so far and the collection of its test
\* commands; makedirs or open raises once r.left writes have been made
Flush(r, dir) ==
    IF r.has /\ r.left = 0 THEN [r EXCEPT !.failed = TRUE]
    ELSE IF r.has
    THEN LET filepath == Join(dir, r.file)
         IN  [r EXCEPT
                 !.fs = WriteFile(@, filepath, JoinLines(r.content)),
                 !.modified = Append(@, r.file),
                 !.written = @ \cup
                     {StagedWrite("stager", filepath, JoinLines(r.content), r.line)},
                 !.cmds = @ \o CmdsOf(r.content),
                 !.left = @ - 1]
    ELSE r

RECURSIVE StageLoop(_, _, _, _, _)
StageLoop(r, lines, i, off, dir) ==
    IF r.failed THEN r
    ELSE IF i > Len(lines) THEN Flush(r, dir)
    ELSE IF lines[i].k = "sec"
    THEN StageLoop([Flush(r, dir) EXCEPT !.has = TRUE, !.file = lines[i].path,
                                          !.content = <<>>, !.line = i + off],
                   lines, i + 1, off, dir)
    ELSE StageLoop([r EXCEPT !.content = Append(@, lines[i])], lines, i + 1, off, dir)

\* _process_changes, n the writes made before one raises
StageWrites(files, content, dir, n) ==
    StageLoop([fs |-> files, modified |-> <<>>, written |-> {}, cmds |-> <<>>,
               has |-> FALSE, file |-> NoPath, content |-> <<>>, line |-> 0,
               left |-> n, failed |-> FALSE],
              Strip(content), 1, StripOffset(content), dir)

_process_changes(files, content, dir) == StageWrites(files, content, dir, Len(content) + 1)

----------------------------------------------------------------------------
(* testing.py: _generate_patch_file *)

\* Path(working_path).touch(), when the file does not exist
Touch(files, f) == IF Exists(files, f) THEN files ELSE WriteFile(files, f, EmptyStr)

\* The loop over the files from the i-th on.  diff ends above 1 when the
\* preview file is missing or, fail_at naming the file, for a reason of its
\* own; the result is the file system, whether the loop ran to its end, and
\* the files with a difference.
RECURSIVE PatchLoop(_, _, _, _, _, _)
PatchLoop(r, files, i, fail_at, pdir, wdir) ==
    IF i > Len(files) THEN r
    ELSE LET preview_path == Join(pdir, files[i])
             working_path == Join(wdir, files[i])
             touched == Touch(r.fs, working_path)
         IN  IF ~Exists(touched, preview_path) \/ i = fail_at
             THEN [r EXCEPT !.fs = touched, !.ok = FALSE]
             ELSE PatchLoop([r EXCEPT
                                !.fs = touched,
                                !.diffs = IF touched[working_path] # touched[preview_path]
                                          THEN Append(@, files[i]) ELSE @],
                            files, i + 1, fail_at, pdir, wdir)

_generate_patch_file(fsys, pdir, wdir, files, fail_at) ==
    LET r == PatchLoop([fs |-> fsys, ok |-> TRUE, diffs |-> <<>>], files, 1, fail_at,
                       pdir, wdir)
    IN  IF r.ok THEN r ELSE [r EXCEPT !.diffs = <<>>]

(* apply_changes_to_working: the run of patch.  With shell=True and a list,
   the shell runs the first item alone, so patch runs without -p0: it reads
   the patch from stdin and takes as the file to patch the last component of
   the name in the header, in the working directory.  A diff of two short
   files is one hunk, the old file against the new one. *)

BaseName(p) == p.comps[Len(p.comps)]

\* a run of patch in the preview directory
PatchTargetInPreview(p) == PreviewDir \o <<BaseName(p)>>

\* the file patch looks for, given the selected path p
PatchTarget(p) == Cwd \o <<BaseName(p)>>

RejName(n) ==
    CASE n = "a.py" -> "a.py.rej" [] n = "b.py" -> "b.py.rej"
      [] n = "c.py" -> "c.py.rej" [] OTHER -> "e.py.rej"

OrigName(n) ==
    CASE n = "a.py" -> "a.py.orig" [] n = "b.py" -> "b.py.orig"
      [] n = "c.py" -> "c.py.orig" [] OTHER -> "e.py.orig"

\* where the lines old stand in the lines of cur
Occurrences(cur, old) ==
    {k \in 1..(Len(cur) - Len(old) + 1) : SubSeq(cur, k, k + Len(old) - 1) = old}

\* cur with the lines old at k replaced by the lines new
Replaced(cur, k, old, new) ==
    LET rest == SubSeq(cur, 1, k - 1) \o SubSeq(cur, k + Len(old), Len(cur))
    IN  IF new = EmptyStr THEN (IF rest = <<>> THEN EmptyStr ELSE rest)
        ELSE SubSeq(cur, 1, k - 1) \o new \o SubSeq(cur, k + Len(old), Len(cur))

\* One hunk, old -> new, for the file t: a hunk against an empty old file
\* creates t or puts its lines in front of those t has; any other is applied
\* where the old lines are found, skipped when t does not exist, and rejected
\* (t.rej and t.orig are written) when they are not found.
ApplyHunk(r, t, old, new) ==
    LET n == t[Len(t)]
    IN  IF old = EmptyStr
        THEN [r EXCEPT !.fs = WriteFile(@, t,
                           IF ~Exists(r.fs, t) \/ r.fs[t] = EmptyStr THEN new
                           ELSE new \o r.fs[t])]
        ELSE IF ~Exists(r.fs, t) THEN [r EXCEPT !.rc = 1]
        ELSE IF Occurrences(r.fs[t], old) # {}
        THEN LET occ == Occurrences(r.fs[t], old)
                 k == CHOOSE x \in occ : \A y \in occ : x <= y
             IN  [r EXCEPT !.fs = WriteFile(@, t, Replaced(r.fs[t], k, old, new))]
        ELSE [r EXCEPT
                 !.fs = WriteFile(WriteFile(@, Cwd \o <<RejName(n)>>, old \o new),
                                  Cwd \o <<OrigName(n)>>, r.fs[t]),
                 !.rc = 1]

\* The hunks of the files from the i-th on, as they were generated from
\* fs0; fatal_at names the file at which patch stops with an error of its
\* own (status 2 and a message on stderr), 0 for none.
RECURSIVE ApplyHunks(_, _, _, _, _, _)
ApplyHunks(r, fs0, files, i, fatal_at, pdir) ==
    IF i > Len(files) THEN r
    ELSE IF i = fatal_at THEN [r EXCEPT !.rc = 2, !.stderr = TRUE]
    ELSE ApplyHunks(ApplyHunk(r, PatchTarget(files[i]), fs0[Join(Cwd, files[i])],
                              fs0[Join(pdir, files[i])]),
                    fs0, files, i + 1, fatal_at, pdir)

RunOfPatch(fsys, files, fatal_at, pdir) ==
    ApplyHunks([fs |-> fsys, rc |-> 0, stderr |-> FALSE], fsys, files, 1, fatal_at, pdir)

Range(q) == {q[i] : i \in 1..Len(q)}

----------------------------------------------------------------------------
(* The responses and working trees the runs start from *)

PathA == Rel(<<"a.py">>)
PathB == Rel(<<"b.py">>)
PathC == Rel(<<"c.py">>)
PathD == Rel(<<"d", "a.py">>)
\* paths a response may name for a created file: plain, climbing out of the
\* staging directory, and absolute
CreatePaths == {PathA, Rel(<<"..", "e.py">>), Abs(<<"w", "a.py">>)}

Original == <<Txt(<<"o">>)>>

\* bodies: no line at all; the empty string; "x"; " x"; "x\n"
NoBody == <<>>
Bodies ==
    {NoBody, EmptyStr, <<Txt(<<"x">>)>>, <<Txt(<<" ", "x">>)>>,
     <<Txt(<<"x">>), Txt(<<>>)>>}

\* the string a body is; a block without body line holds the empty string
BodyStr(body) == IF body = <<>> THEN EmptyStr ELSE body

\* the hash a header declares: of the body as written, of the stripped body,
\* or of neither
Declared(hk, body) ==
    IF hk = "raw" THEN _hash_content(BodyStr(body))
    ELSE IF hk = "stripped" THEN _hash_content(Strip(body))
    ELSE WrongHash

Block(hd, op, path, hk, body, closed) ==
    [hd |-> hd, op |-> op, path |-> path, hk |-> hk, body |-> body, closed |-> closed]

\* the FILE blocks of the enumerated responses, cp the path of the CREATE blocks
AgentBlocks(cp) ==
    {Block("ok", "CREATE", cp, hk, b, TRUE) : hk \in {"raw", "stripped", "wrong"}, b \in Bodies}
    \cup {Block("ok", "CREATE", cp, "raw", <<Txt(<<"x">>)>>, FALSE)}
    \cup {Block("ok", "MODIFY", PathB, hk, b, TRUE) :
              hk \in {"raw", "wrong"}, b \in {<<Txt(<<"x">>)>>, EmptyStr}}
    \cup {Block("ok", "DELETE", PathC, "wrong", b, cl) :
              b \in {NoBody, EmptyStr, <<Txt(<<"x">>)>>}, cl \in BOOLEAN}
    \cup {Block("bad", "MODIFY", PathB, "raw", <<Txt(<<"x">>)>>, cl) : cl \in BOOLEAN}

\* the line """TEST CMD: t
TestCmd == Txt(<<TestCmdPrefix, " ", "t">>)

\* the responses of the pipeline runs: sections of the "### [path]" form,
\* one with an absolute path, one below a directory and one whose content is
\* a test command line, and FILE blocks, one
\* of them failing verification with a section header in its body, one a
\* DELETE with an empty body line
PipelineBlocks ==
    {Block("sec", "", PathA, "raw", <<Txt(<<"x">>)>>, FALSE),
     Block("sec", "", Abs(<<"w", "c.py">>), "raw", <<Txt(<<"x">>)>>, FALSE),
     Block("sec", "", PathD, "raw", <<Txt(<<"x">>)>>, FALSE),
     Block("sec", "", PathA, "raw", <<TestCmd>>, FALSE),
     Block("ok", "CREATE", PathB, "raw", <<Txt(<<"x">>)>>, TRUE),
     Block("ok", "MODIFY", PathC, "wrong", <<Sec(PathC), Txt(<<"x">>)>>, TRUE),
     Block("ok", "DELETE", PathC, "raw", EmptyStr, TRUE)}

BlockLines(b) ==
    <<IF b.hd = "ok" THEN Hdr(b.op, b.path, Declared(b.hk, b.body))
      ELSE IF b.hd = "sec" THEN Sec(b.path) ELSE BadHdr>>
    \o b.body \o (IF b.closed THEN <<EndLine>> ELSE <<>>)

\* sequences of at most n blocks
RECURSIVE BlockSeqs(_, _)
BlockSeqs(blocks, n) ==
    IF n = 0 THEN {<<>>}
    ELSE LET shorter == BlockSeqs(blocks, n - 1)
         IN  shorter \cup {Append(t, b) : t \in shorter, b \in blocks}

RECURSIVE Concat(_)
Concat(bs) == IF bs = <<>> THEN <<>> ELSE BlockLines(Head(bs)) \o Concat(Tail(bs))

TextOf(bs) == IF bs = <<>> THEN EmptyStr ELSE Concat(bs)

TreeOf(names) == [f \in {Cwd \o n : n \in names} |-> Original]

\* a working tree whose b.py holds "x", the body of the MODIFY blocks
TreeWithB == [f \in {Cwd \o <<"b.py">>} |-> <<Txt(<<"x">>)>>]

AgentTrees == {TreeOf({}), TreeOf({<<"c.py">>}), TreeWithB}

PipelineTrees ==
    {TreeOf({}), TreeOf({<<".git", "HEAD">>}), TreeOf({<<"a.py">>}),
     TreeOf({<<"c.py">>, <<".git", "HEAD">>})}

\* collect_files found a code file: execute and change return when none
HasCodeFile(files) == \E f \in FilesUnder(files, Cwd) : ~IsIgnored(f)

----------------------------------------------------------------------------
(* llms/registry.py: the registry file and the calls that update it *)

Claude == "Claude-3 Sonnet"
Gemini == "Gemini Pro"
LLMNames == {Claude, Gemini}

\* initial_data of _ensure_registry_exists; last_updated and the timestamps
\* of the switch records are left out
InitialData == [switches |-> <<>>, current_llm |-> "none", rate_limits |-> <<>>]

NoCall == [op |-> "none", from |-> "none", to |-> "none", llm |-> "none", wait |-> 0]

SwitchCall(from, to) == [op |-> "switch", from |-> from, to |-> to, llm |-> "none", wait |-> 0]

RateLimitCall(llm, wait) ==
    [op |-> "rate_limit", from |-> "none", to |-> "none", llm |-> llm, wait |-> wait]

\* record_switch between load and save
WithSwitch(reg, from, to) ==
    [reg EXCEPT !.switches = Append(@, [from |-> from, to |-> to, reason |-> "overloaded"]),
                !.current_llm = to]

\* registry["rate_limits"][llm_name] = {"until": ..., "wait_time": ...}
WithRateLimit(reg, llm, wait, t) ==
    [reg EXCEPT !.rate_limits =
        [n \in DOMAIN @ \cup {llm} |->
            IF n = llm THEN [until |-> t + wait, wait_time |-> wait] ELSE @[n]]]

\* del registry["rate_limits"][llm_name]
WithoutRateLimit(reg, llm) ==
    [reg EXCEPT !.rate_limits = [n \in DOMAIN @ \ {llm} |-> @[n]]]

\* the registry a call saves, given the registry it loaded
Updated(reg, call, t) ==
    IF call.op = "switch" THEN WithSwitch(reg, call.from, call.to)
    ELSE WithRateLimit(reg, call.llm, call.wait, t)

\* the processes that use the registry file, each through an LLMRegistry of
\* its own
Procs == {1, 2}

LLMOf(p) == IF p = 1 THEN Claude ELSE Gemini

\* the calls a process may make: each names its own backend
Calls(p) == {SwitchCall("none", LLMOf(p)), RateLimitCall(LLMOf(p), 1)}

RegIdle == [p \in Procs |-> [pc |-> "idle", call |-> NoCall, local |-> InitialData]]

\* record_switch or record_rate_limit is called
RecordCall(p) ==
    /\ rproc[p].pc = "idle"
    /\ \E call \in Calls(p) : rproc' = [rproc EXCEPT ![p].pc = "load", ![p].call = call]
    /\ UNCHANGED <<pipeline_vars, registry, lock, now, send, retry>>

\* `with self.lock:` of _load_registry and of _save_registry
AcquireLock(p) ==
    /\ rproc[p].pc \in {"load", "save"}
    /\ lock = 0
    /\ lock' = p
    /\ rproc' = [rproc EXCEPT ![p].pc = IF @ = "load" THEN "loading" ELSE "saving"]
    /\ UNCHANGED <<pipeline_vars, registry, now, send, retry>>

\* _load_registry: json.load, and the lock is released on return
LoadRegistry(p) ==
    /\ rproc[p].pc = "loading"
    /\ lock = p
    /\ rproc' = [rproc EXCEPT ![p].pc = "loaded", ![p].local = registry]
    /\ lock' = 0
    /\ UNCHANGED <<pipeline_vars, registry, now, send, retry>>

\* the update of the loaded dictionary, between _load_registry and
\* _save_registry
UpdateLoaded(p) ==
    /\ rproc[p].pc = "loaded"
    /\ rproc' = [rproc EXCEPT ![p].pc = "save",
                              ![p].local = Updated(@, rproc[p].call, now)]
    /\ UNCHANGED <<pipeline_vars, registry, lock, now, send, retry>>

\* _save_registry: json.dump, and the lock is released on return
SaveRegistry(p) ==
    /\ rproc[p].pc = "saving"
    /\ lock = p
    /\ registry' = rproc[p].local
    /\ lock' = 0
    /\ rproc' = [rproc EXCEPT ![p].pc = "done"]
    /\ UNCHANGED <<pipeline_vars, now, send, retry>>

----------------------------------------------------------------------------
(* agent.py: LLMAgent._send_message, with the registry calls it makes *)

\* calls of _send_message in a run, and the seconds the clock runs
MaxCalls == 3
MaxTime == 3

\* a wait time is <<>> for None and <<n>> for n seconds
NoWait == <<>>

\* get_rate_limit_info: the entry of llm unless it is missing or expired, and
\* the registry, from which an expired entry is deleted
get_rate_limit_info(reg, llm, t) ==
    IF llm \notin DOMAIN reg.rate_limits
    THEN [registry |-> reg, limited |-> FALSE, until |-> 0]
    ELSE IF t >= reg.rate_limits[llm].until
    THEN [registry |-> WithoutRateLimit(reg, llm), limited |-> FALSE, until |-> 0]
    ELSE [registry |-> reg, limited |-> TRUE, until |-> reg.rate_limits[llm].until]

\* record_rate_limit: ValueError when wait_time is None
record_rate_limit(reg, llm, wait, t) ==
    IF wait = NoWait THEN [registry |-> reg, raised |-> "ValueError"]
    ELSE [registry |-> WithRateLimit(reg, llm, wait[1], t), raised |-> "none"]

\* the calls of get_rate_limit_info for every backend that follow in the
\* handler: the expired entries are deleted
RECURSIVE Purged(_, _, _)
Purged(reg, names, t) ==
    IF names = {} THEN reg
    ELSE LET n == CHOOSE x \in names : TRUE
         IN  Purged(get_rate_limit_info(reg, n, t).registry, names \ {n}, t)

\* `except LLMRateLimitError as e`, e.wait_time being wait
OnRateLimit(reg, llm, wait, t) ==
    LET r == record_rate_limit(reg, llm, wait, t)
    IN  IF r.raised # "none" THEN r
        ELSE [registry |-> Purged(r.registry, LLMNames, t), raised |-> "LLMRateLimitError"]

Outcome(kind, wait) == [kind |-> kind, wait |-> wait]

\* what send_message of a backend does: it returns a response, or raises
\* LLMRateLimitError (ClaudeSonnet with the retry-after header as wait time,
\* GeminiPro without one), LLMOverloadedError (ClaudeSonnet) or Exception
BackendOutcomes(llm) ==
    IF llm = Claude
    THEN {Outcome("ok", NoWait), Outcome("overloaded", NoWait), Outcome("error", NoWait)}
         \cup {Outcome("rate_limit", <<w>>) : w \in 0..2}
    ELSE {Outcome("ok", NoWait), Outcome("error", NoWait), Outcome("rate_limit", NoWait)}

\* _send_message with current_llm = llm: the registry it leaves, whether the
\* backend was called, and what it raised ("none": it returned the response)
_send_message(reg, llm, outcome, t) ==
    LET g == get_rate_limit_info(reg, llm, t)
    IN  IF g.limited
        THEN [called |-> FALSE] @@ OnRateLimit(g.registry, llm, <<g.until - t>>, t)
        ELSE IF outcome.kind = "ok"
        THEN [called |-> TRUE, registry |-> g.registry, raised |-> "none"]
        ELSE IF outcome.kind = "rate_limit"
        THEN [called |-> TRUE] @@ OnRateLimit(g.registry, llm, outcome.wait, t)
        ELSE [called |-> TRUE, registry |-> g.registry,
              raised |-> IF outcome.kind = "overloaded" THEN "LLMOverloadedError"
                         ELSE "Exception"]

SendIdle ==
    [calls |-> 0, llm |-> "none", limited |-> FALSE, backend |-> "none", raised |-> "none"]

\* a call of _send_message; the current backend is the one set-llm chose
SendMessage ==
    /\ send.calls < MaxCalls
    /\ \E llm \in LLMNames : \E outcome \in BackendOutcomes(llm) :
         LET r == _send_message(registry, llm, outcome, now)
         IN  /\ registry' = r.registry
             /\ send' = [calls |-> send.calls + 1,
                         llm |-> llm,
                         limited |-> /\ llm \in DOMAIN registry.rate_limits
                                     /\ now < registry.rate_limits[llm].until,
                         backend |-> IF r.called THEN outcome.kind ELSE "none",
                         raised |-> r.raised]
    /\ UNCHANGED <<pipeline_vars, lock, rproc, now, retry>>

\* a second passes
Tick ==
    /\ now < MaxTime
    /\ now' = now + 1
    /\ UNCHANGED <<pipeline_vars, registry, lock, rproc, send, retry>>

----------------------------------------------------------------------------
(* llms/google_gemini.py: retry_with_backoff *)

\* the largest max_retries, initial_delay and max_delay of the enumerated
\* decorators
MaxRetries == 3
MaxInitialDelay == 2
MaxMaxDelay == 4

Min(a, b) == IF a <= b THEN a ELSE b

\* a doubling without the cap
NextDelayUncapped(delay, max_delay) == delay * 2

\* delay = min(delay * 2, max_delay)
NextDelay(delay, max_delay) == Min(delay * 2, max_delay)

NoResult == [kind |-> "none", of |-> 0]

RetryIdle ==
    [pc |-> "idle", max_retries |-> 0, initial_delay |-> 0, max_delay |-> 0, retries |-> 0,
     delay |-> 0, outcomes |-> <<>>, waits |-> <<>>, result |-> NoResult]

\* wrapper is called: retries = 0, delay = initial_delay, and the loop is
\* entered
RetryStart(max_retries, initial_delay, max_delay) ==
    [pc |-> IF 0 < max_retries THEN "call" ELSE "done",
     max_retries |-> max_retries, initial_delay |-> initial_delay, max_delay |-> max_delay,
     retries |-> 0, delay |-> initial_delay, outcomes |-> <<>>, waits |-> <<>>,
     result |-> IF 0 < max_retries THEN NoResult ELSE [kind |-> "return None", of |-> 0]]

\* `return func(*args, **kwargs)` in the try: the function returns, and the
\* wrapper returns its result, or it raises, and the exception is raised
\* again when this was the last try
Invoke ==
    /\ retry.pc = "call"
    /\ \E ok \in BOOLEAN :
         LET k == Len(retry.outcomes) + 1
         IN  retry' =
               IF ok
               THEN [retry EXCEPT !.outcomes = Append(@, "returned"), !.pc = "done",
                                  !.result = [kind |-> "return", of |-> k]]
               ELSE IF retry.retries = retry.max_retries - 1
               THEN [retry EXCEPT !.outcomes = Append(@, "raised"), !.pc = "done",
                                  !.result = [kind |-> "raise", of |-> k]]
               ELSE [retry EXCEPT !.outcomes = Append(@, "raised"), !.pc = "sleep"]
    /\ UNCHANGED <<pipeline_vars, registry, lock, rproc, now, send>>

\* time.sleep(delay), the new delay, retries += 1 and the test of the loop
Sleep ==
    /\ retry.pc = "sleep"
    /\ retry' = [retry EXCEPT
                    !.waits = Append(@, retry.delay),
                    !.delay = NextDelay(@, retry.max_delay),
                    !.retries = @ + 1,
                    !.pc = IF retry.retries + 1 < retry.max_retries THEN "call" ELSE "done",
                    !.result = IF retry.retries + 1 < retry.max_retries THEN @
                               ELSE [kind |-> "return None", of |-> 0]]
    /\ UNCHANGED <<pipeline_vars, registry, lock, rproc, now, send>>

\* no use of the registry, of _send_message or of a wrapped function
LLMIdle ==
    /\ registry = InitialData
    /\ lock = 0
    /\ rproc = RegIdle
    /\ now = 0
    /\ send = SendIdle
    /\ retry = RetryIdle

----------------------------------------------------------------------------
(* The runs *)

NoBackup == [ran |-> FALSE, dir |-> <<>>]

NothingKept == [preview |-> <<>>, snapshot |-> <<>>]

\* the files below dir, with their content
TreeAt(files, dir) == [f \in FilesUnder(files, dir) |-> files[f]]

\* An earlier run in the same working directory that staged EarlierText and
\* ended at the prompt with 'q': the file system it leaves, and the preview
\* directory it staged into with the files it holds.
EarlierText == <<Sec(PathB), Txt(<<"o">>)>>

EarlierRun(tree) ==
    _process_changes(_setup_preview_dir(tree, Copied(tree, Cwd)), EarlierText,
                     PreviewDir).fs

LeftBy(files) ==
    [ran |-> TRUE, dir |-> PreviewDir,
     files |-> [f \in FilesUnder(files, PreviewDir) |-> files[f]]]

NoEarlierRun == [ran |-> FALSE, dir |-> <<>>, files |-> <<>>]

\* An earlier apply attempt in the same working directory: a run that staged
\* EarlierApplyText over OlderTree, selected all, took its snapshot and
\* patched a.py.  It was made in the clock second of the present run, or in
\* an earlier one, which gave its snapshot directory another name.
EarlierApplyText == <<Sec(PathA), Txt(<<"o">>)>>

OlderTree == [f \in {Cwd \o <<"a.py">>} |-> <<Txt(<<"x">>)>>]

OlderBackupDir == TmpDir \o <<"codedriver_backup_ts0">>

Renamed(files, src, dst) ==
    [g \in (DOMAIN files \ FilesUnder(files, src))
            \cup {Moved(f, src, dst) : f \in FilesUnder(files, src)} |->
        IF g \in DOMAIN files \ FilesUnder(files, src) THEN files[g]
        ELSE files[CHOOSE f \in FilesUnder(files, src) : Moved(f, src, dst) = g]]

EarlierApply(same_second) ==
    LET s0 == _process_changes(_setup_preview_dir(OlderTree, Copied(OlderTree, Cwd)),
                               EarlierApplyText, PreviewDir).fs
        b  == _create_backup(s0, Copied(s0, Cwd), TRUE).fs
        g  == _generate_patch_file(b, PreviewDir, Cwd, <<PathA>>, 0)
        r  == RunOfPatch(g.fs, g.diffs, 0, PreviewDir).fs
    IN  IF same_second THEN r ELSE Renamed(r, BackupDir, OlderBackupDir)

\* the snapshot directory the earlier attempt used
EarlierBackupDir(same_second) == IF same_second THEN BackupDir ELSE OlderBackupDir

\* console.input(...).lower(): 'y', 'd', 'q', a string of digits with its
\* value, a string of digits without one, or anything else; "none" before the
\* first prompt
Input(key, idx) == [key |-> key, idx |-> idx]

InitCommon ==
    /\ pc = "start"
    /\ agent_changes = <<>>
    /\ agent_modified = <<>>
    /\ agent_src = <<>>
    /\ warnings = <<>>
    /\ staged = {}
    /\ preview_dir = <<>>
    /\ modified_files = <<>>
    /\ files_to_modify = <<>>
    /\ preview_success = "none"
    /\ io_failed = FALSE
    /\ test_cmds = <<>>
    /\ tests_run = <<>>
    /\ choice = Input("none", 0)
    /\ selected_files = <<>>
    /\ backup = NoBackup
    /\ patch = <<>>
    /\ diff_error = FALSE
    /\ patch_rc = <<>>
    /\ result = "none"
    /\ start_tree = WorkingTree(fs)
    /\ apply_tree = WorkingTree(fs)
    /\ at_apply = NothingKept

\* LLMAgent.process_changes on an arbitrary response
InitAgent ==
    /\ \E cp \in CreatePaths : \E bs \in BlockSeqs(AgentBlocks(cp), MaxBlocks) :
           text = TextOf(bs)
    /\ fs \in AgentTrees
    /\ earlier = NoEarlierRun
    /\ earlier_backup = NoEarlierRun
    /\ entry = "agent"
    /\ InitCommon
    /\ LLMIdle

\* a run of cli/change.py execute ("cli"), of codedriver.py change ("legacy"),
\* or of testing.py apply_changes ("api")
Init ==
    /\ \E bs \in BlockSeqs(PipelineBlocks, MaxBlocks) : text = TextOf(bs)
    /\ \/ \E tree \in PipelineTrees :
            /\ \/ fs = tree /\ earlier = NoEarlierRun
               \/ fs = EarlierRun(tree) /\ earlier = LeftBy(EarlierRun(tree))
            /\ earlier_backup = NoEarlierRun
       \/ \E same_second \in BOOLEAN :
            /\ fs = EarlierApply(same_second)
            /\ earlier = LeftBy(fs)
            /\ earlier_backup = [ran |-> TRUE, dir |-> EarlierBackupDir(same_second),
                                 files |-> [f \in FilesUnder(fs, EarlierBackupDir(same_second))
                                               |-> fs[f]]]
    /\ entry \in {"cli", "legacy", "api"}
    /\ entry \in {"cli", "legacy"} => HasCodeFile(fs)
    /\ InitCommon
    /\ LLMIdle

ProcessChanges ==
    /\ pc = "start"
    /\ entry \in {"agent", "cli"}
    /\ LET changes == _parse_file_changes(text)
           r == process_changes(fs, changes)
       IN  /\ agent_changes' = changes
           /\ fs' = r.fs
           /\ agent_modified' = r.modified
           /\ agent_src' = r.src
           /\ warnings' = r.warnings
           /\ staged' = staged \cup r.written
    /\ pc' = "processed"
    /\ UNCHANGED <<llm_vars, text, choice, entry, stage_vars, apply_vars, start_tree, earlier,
                   earlier_backup>>

\* display_changes of codedriver.py: the keys of files_to_modify, a dict
RECURSIVE SectionKeys(_, _)
SectionKeys(lines, seen) ==
    IF lines = <<>> THEN seen
    ELSE SectionKeys(Tail(lines),
                     IF Head(lines).k = "sec" /\ Head(lines).path \notin Range(seen)
                     THEN Append(seen, Head(lines).path) ELSE seen)

display_changes(content) == SectionKeys(content, <<>>)

\* the "### [path]" lines of a response: the writes _process_changes makes
NumSections(content) ==
    Cardinality({i \in 1..Len(Strip(content)) : Strip(content)[i].k = "sec"})

\* the test command lines of a response
NumTestCmds(content) == Cardinality({i \in 1..Len(content) : IsTestCmd(content[i])})

\* the except clause of apply_changes_to_preview
OnStagingErrorKeep(dir, modified) ==
    [preview_dir |-> dir, modified |-> modified, success |-> TRUE]

OnStagingError(dir, modified) ==
    [preview_dir |-> <<>>, modified |-> <<>>, success |-> FALSE]

\* The loop over the test commands: bad is the first command that ends with
\* a non-zero status, 0 when none does.  The commands run in the preview
\* directory and are taken to write nothing.
RunTests(cmds, bad) ==
    IF bad \in 1..Len(cmds)
    THEN [k \in 1..bad |-> [cmd |-> cmds[k], rc |-> IF k = bad THEN 1 ELSE 0]]
    ELSE [k \in 1..Len(cmds) |-> [cmd |-> cmds[k], rc |-> 0]]

\* apply_changes_to_preview: S the files _setup_preview_dir copied before a
\* copy raised (all of them when none did), n the writes _process_changes
\* made before a write raised, bad the test command that fails
apply_changes_to_preview(files, content, S, n, bad) ==
    LET dir == _setup_preview_dir(files, S)
        w   == StageWrites(dir, content, PreviewDir, n)
        ran == RunTests(w.cmds, bad)
    IN  IF S # Copied(files, Cwd)
        THEN [fs |-> dir, written |-> {}, raised |-> TRUE, test_cmds |-> <<>>,
              ran |-> <<>>]
             @@ OnStagingError(PreviewDir, <<>>)
        ELSE IF w.failed
        THEN [fs |-> w.fs, written |-> w.written, raised |-> TRUE, test_cmds |-> <<>>,
              ran |-> <<>>]
             @@ OnStagingError(PreviewDir, w.modified)
        ELSE [fs |-> w.fs, written |-> w.written, raised |-> FALSE,
              test_cmds |-> w.cmds, ran |-> ran,
              preview_dir |-> PreviewDir, modified |-> w.modified,
              success |-> \A k \in 1..Len(ran) : ran[k].rc = 0]

\* the callers' test of the result: "if not preview_success" in both command
\* lines, "if not preview_success or not preview_dir" in apply_changes
PreviewFailed(e, r) ==
    IF e = "api" THEN ~r.success \/ r.preview_dir = <<>> ELSE ~r.success

\* apply_changes_to_preview, and what its caller does with the result up to
\* the prompt
ApplyChangesToPreview ==
    /\ \/ entry = "cli" /\ pc = "processed"
       \/ entry \in {"legacy", "api"} /\ pc = "start"
    /\ \E ok \in BOOLEAN : \E S \in CopyOutcomes(fs, Cwd, ok) :
       \E n \in 0..NumSections(text) : \E bad \in 0..NumTestCmds(text) :
         LET r == apply_changes_to_preview(fs, text, S, n, bad)
         IN  /\ fs' = r.fs
             /\ test_cmds' = r.test_cmds
             /\ tests_run' = r.ran
             /\ staged' = staged \cup r.written
             /\ io_failed' = r.raised
             /\ preview_dir' = r.preview_dir
             /\ modified_files' = r.modified
             /\ preview_success' = IF r.success THEN "true" ELSE "false"
             /\ files_to_modify' =
                   IF entry = "legacy" THEN display_changes(text)
                   ELSE IF entry = "cli" /\ r.success THEN r.modified
                   ELSE <<>>
             /\ selected_files' =
                   IF entry = "api" /\ ~PreviewFailed(entry, r) THEN r.modified ELSE <<>>
             /\ pc' = IF PreviewFailed(entry, r) THEN "end"
                      ELSE IF entry = "api" THEN "apply"
                      ELSE IF entry = "cli" /\ r.modified = <<>> THEN "end"
                      ELSE "choose"
             /\ result' = IF entry = "api" /\ PreviewFailed(entry, r) THEN "false" ELSE result
    /\ UNCHANGED <<llm_vars, text, choice, entry, agent_vars, backup, patch, diff_error, patch_rc, apply_tree, at_apply,
                   start_tree, earlier, earlier_backup>>

\* choice 'q'
Quit ==
    /\ pc = "choose"
    /\ choice' = Input("q", 0)
    /\ pc' = "cancelled"
    /\ UNCHANGED <<llm_vars, text, fs, entry, agent_vars, staged, stage_vars, apply_vars, start_tree,
                   earlier, earlier_backup>>

\* show_file_diff of cli/change.py is not among the sources; it is taken to
\* render DiffEngine.diffFiles of the design, which writes nothing
show_file_diff(files) == files

\* show_directory_diff(".", preview_dir): the patch over the files at the top
\* of the preview directory, which touches those missing from the working
\* tree; T the files reached before diff failed
TopFiles(files, dir) == {f \in FilesUnder(files, dir) : Len(f) = Len(dir) + 1}

show_directory_diff(files, T) ==
    [g \in DOMAIN files \cup {Moved(f, PreviewDir, Cwd) : f \in T} |->
        IF g \in DOMAIN files THEN files[g] ELSE EmptyStr]

\* choice 'd'
ViewDiff ==
    /\ pc = "choose"
    /\ choice' = Input("d", 0)
    /\ \/ entry = "cli" /\ fs' = show_file_diff(fs)
       \/ /\ entry = "legacy"
          /\ \E T \in SUBSET TopFiles(fs, PreviewDir) : fs' = show_directory_diff(fs, T)
    /\ UNCHANGED <<llm_vars, text, pc, entry, agent_vars, staged, stage_vars, apply_vars, start_tree,
                   earlier, earlier_backup>>

\* choice 'y'
ApplyAll ==
    /\ pc = "choose"
    /\ choice' = Input("y", 0)
    /\ selected_files' = files_to_modify
    /\ pc' = "apply"
    /\ UNCHANGED <<llm_vars, text, fs, entry, agent_vars, staged, stage_vars, backup, patch,
                   diff_error, patch_rc, result, apply_tree, at_apply, start_tree, earlier, earlier_backup>>

\* a choice of digits, file_idx its value
ChooseIndex ==
    /\ pc = "choose"
    /\ \E file_idx \in 0..(Len(files_to_modify) + 1) :
         /\ choice' = Input("digit", file_idx)
         /\ IF 1 <= file_idx /\ file_idx <= Len(files_to_modify)
            THEN /\ selected_files' = <<files_to_modify[file_idx]>>
                 /\ pc' = "apply"
            ELSE UNCHANGED <<selected_files, pc>>
    /\ UNCHANGED <<llm_vars, text, fs, entry, agent_vars, staged, stage_vars, backup, patch,
                   diff_error, patch_rc, result, apply_tree, at_apply, start_tree, earlier, earlier_backup>>

\* A choice for which isdigit() holds and int() has no value, such as a
\* superscript digit: int(choice) raises ValueError.  execute does not catch
\* it; change catches it, reports an error and returns.
DigitsWithoutValue ==
    /\ pc = "choose"
    /\ choice' = Input("digits without value", 0)
    /\ pc' = "error"
    /\ UNCHANGED <<llm_vars, text, fs, entry, agent_vars, staged, stage_vars, apply_vars, start_tree,
                   earlier, earlier_backup>>

\* any other choice
InvalidChoice ==
    /\ pc = "choose"
    /\ choice' = Input("other", 0)
    /\ UNCHANGED <<llm_vars, text, fs, pc, entry, agent_vars, staged, stage_vars, apply_vars,
                   start_tree, earlier, earlier_backup>>

\* the default of the parameter; no caller passes another value
backup_first == TRUE

\* a check that never sees the failure
BackupFailedNever(dir) == FALSE

\* `if not backup_dir`
BackupFailed(dir) == dir = <<>>

\* apply_changes_to_working up to the generation of the patch
ApplyBackup ==
    /\ pc = "apply"
    /\ apply_tree' = WorkingTree(fs)
    /\ \E ok \in BOOLEAN : \E S \in CopyOutcomes(fs, Cwd, ok) :
         LET b == IF backup_first THEN _create_backup(fs, S, ok)
                  ELSE [fs |-> fs, dir |-> <<>>]
         IN  /\ fs' = b.fs
             /\ backup' = [ran |-> backup_first, dir |-> b.dir]
             /\ at_apply' = [preview |-> TreeAt(fs, preview_dir),
                             snapshot |-> IF b.dir = <<>> THEN <<>> ELSE TreeAt(b.fs, b.dir)]
             /\ IF backup_first /\ BackupFailed(b.dir)
                THEN pc' = "done" /\ result' = "false"
                ELSE IF selected_files = <<>>
                THEN pc' = "done" /\ result' = "true"
                ELSE pc' = "generate" /\ result' = result
    /\ UNCHANGED <<llm_vars, text, choice, entry, agent_vars, staged, stage_vars, selected_files, patch, diff_error, patch_rc,
                   start_tree, earlier, earlier_backup>>

\* _generate_patch_file(preview_dir, ".", modified_files) and the return on
\* an empty result
GeneratePatch ==
    /\ pc = "generate"
    /\ \E fail_at \in 0..Len(selected_files) :
         LET r == _generate_patch_file(fs, preview_dir, Cwd, selected_files, fail_at)
         IN  /\ fs' = r.fs
             /\ patch' = r.diffs
             /\ diff_error' = ~r.ok
             /\ IF r.diffs = <<>>
                THEN pc' = "done" /\ result' = "true"
                ELSE pc' = "patch" /\ result' = result
    /\ UNCHANGED <<llm_vars, text, choice, entry, agent_vars, staged, stage_vars, selected_files, backup, patch_rc,
                   apply_tree, at_apply, start_tree, earlier, earlier_backup>>

\* the run of patch and the rest of apply_changes_to_working: failure is
\* returned when patch ended with a non-zero status and wrote to stderr, and
\* when an exception was raised
RunPatch ==
    /\ pc = "patch"
    /\ \/ \E fatal_at \in 0..Len(patch) :
            LET r == RunOfPatch(fs, patch, fatal_at, preview_dir)
            IN  /\ fs' = r.fs
                /\ patch_rc' = <<r.rc>>
                /\ result' = IF r.stderr /\ r.rc # 0 THEN "false" ELSE "true"
       \/ \* open(patch_file) or subprocess.run raises: the except clause
          /\ fs' = fs
          /\ patch_rc' = patch_rc
          /\ result' = "false"
    /\ pc' = "done"
    /\ UNCHANGED <<llm_vars, text, choice, entry, agent_vars, staged, stage_vars, selected_files, backup, diff_error,
                   patch, apply_tree, at_apply, start_tree, earlier, earlier_backup>>

NextAgent == ProcessChanges

SpecAgent == InitAgent /\ [][NextAgent]_vars

Next ==
    \/ ProcessChanges
    \/ ApplyChangesToPreview
    \/ Quit
    \/ ViewDiff
    \/ ApplyAll
    \/ ChooseIndex
    \/ DigitsWithoutValue
    \/ InvalidChoice
    \/ ApplyBackup
    \/ GeneratePatch
    \/ RunPatch

Spec == Init /\ [][Next]_vars

\* no run of the pipeline
PipelineIdle ==
    /\ text = EmptyStr
    /\ fs = <<>>
    /\ entry = "none"
    /\ earlier = NoEarlierRun
    /\ earlier_backup = NoEarlierRun
    /\ InitCommon

\* two processes, each with an LLMRegistry on the same file, the file as
\* _ensure_registry_exists leaves it
InitRegistry ==
    /\ PipelineIdle
    /\ LLMIdle

NextRegistry ==
    \E p \in Procs :
        \/ RecordCall(p)
        \/ AcquireLock(p)
        \/ LoadRegistry(p)
        \/ UpdateLoaded(p)
        \/ SaveRegistry(p)

SpecRegistry == InitRegistry /\ [][NextRegistry]_vars

\* an LLMAgent, the registry file as _ensure_registry_exists leaves it
InitSend ==
    /\ PipelineIdle
    /\ LLMIdle

NextSend == SendMessage \/ Tick

SpecSend == InitSend /\ [][NextSend]_vars

\* a call of a function wrapped by retry_with_backoff(max_retries,
\* initial_delay, max_delay), the numbers positive
InitRetry ==
    /\ PipelineIdle
    /\ registry = InitialData
    /\ lock = 0
    /\ rproc = RegIdle
    /\ now = 0
    /\ send = SendIdle
    /\ \E m \in 1..MaxRetries : \E i \in 1..MaxInitialDelay : \E d \in 1..MaxMaxDelay :
         retry = RetryStart(m, i, d)

NextRetry == Invoke \/ Sleep

\* the wrapper runs on: the function and time.sleep return
SpecRetry == InitRetry /\ [][NextRetry]_vars /\ WF_vars(NextRetry)

----------------------------------------------------------------------------
(* The blocks of a response, as the protocol grammar reads them *)

IsBodyLine(line) == line.k \in {"txt", "sec"}

\* lines i..j are a block with a complete header and its closing delimiter
WellFormedBlock(L, i, j) ==
    /\ i < j
    /\ L[i].k = "hdr"
    /\ L[j].k = "end"
    /\ \A m \in (i + 1)..(j - 1) : IsBodyLine(L[m])

BlockBody(L, i, j) == SubSeq(L, i + 1, j - 1)

\* a body that is a non-empty string without surrounding whitespace
CleanBody(body) == body # <<>> /\ body # EmptyStr /\ Strip(body) = body

\* a MODIFY or CREATE block whose declared hash is not the hash of its body
FailingBlock(L, i, j) ==
    /\ WellFormedBlock(L, i, j)
    /\ L[i].op \in {"MODIFY", "CREATE"}
    /\ _hash_content(BodyStr(BlockBody(L, i, j))) # L[i].hash

ListedFrom(i) == \E k \in 1..Len(agent_src) : agent_src[k] = i

StagedFrom(i) == {w \in staged : w.who = "agent" /\ w.line = i}

Warned(path) == \E k \in 1..Len(warnings) : warnings[k] = path

Lines == 1..Len(text)

----------------------------------------------------------------------------
(* Claims *)

\* C3: a MODIFY or CREATE block, whatever its body, whose declared hash
\* differs from the hash of its body is never listed in modified_files and
\* nothing of it is written into the preview directory by process_changes.
C3_HashRejection ==
    pc = "processed" =>
        \A i, j \in Lines :
            FailingBlock(text, i, j) => ~ListedFrom(i) /\ StagedFrom(i) = {}

\* C7: a response that is one FILE CREATE block with body C and the hash of C
\* yields exactly one change, CREATE of that path with content exactly C,
\* and it passes verification.
C7_RoundTrip ==
    pc = "processed" =>
        LET n == Len(text)
            C == BlockBody(text, 1, n)
        IN  (/\ WellFormedBlock(text, 1, n)
             /\ C # <<>>
             /\ text[1].op = "CREATE"
             /\ text[1].hash = _hash_content(C))
            => /\ Len(agent_changes) = 1
               /\ agent_changes[1].operation = "create"
               /\ agent_changes[1].filepath = text[1].path
               /\ agent_changes[1].content = C
               /\ warnings = <<>>

\* C8: when a change of the batch fails verification, every other
\* well-formed, correctly hashed change of the batch is still staged and
\* listed, and a warning names the failing path.  (Stated for the changes
\* whose body has no surrounding whitespace.)
C8_MismatchAbsorbed ==
    pc = "processed" =>
        ((\E i, j \in Lines : FailingBlock(text, i, j)) =>
            /\ \A i, j \in Lines :
                  (/\ WellFormedBlock(text, i, j)
                   /\ text[i].op \in {"MODIFY", "CREATE"}
                   /\ CleanBody(BlockBody(text, i, j))
                   /\ text[i].hash = _hash_content(BlockBody(text, i, j)))
                  => /\ ListedFrom(i)
                     /\ \E w \in StagedFrom(i) : w.content = BlockBody(text, i, j)
            /\ \A i, j \in Lines :
                  FailingBlock(text, i, j) /\ CleanBody(BlockBody(text, i, j))
                  => Warned(text[i].path))

\* C9: every well-formed FILE block of a response is among the parsed changes
\* with its own path and body, also after a block that lacks its closing
\* delimiter or a header field.  (Stated for the blocks whose body has no
\* surrounding whitespace.)
C9_WellFormedSurvive ==
    pc = "processed" =>
        \A i, j \in Lines :
            WellFormedBlock(text, i, j) /\ CleanBody(BlockBody(text, i, j))
            => \E k \in 1..Len(agent_changes) :
                  /\ agent_changes[k].line = i
                  /\ agent_changes[k].filepath = text[i].path
                  /\ agent_changes[k].content = BlockBody(text, i, j)

\* C10: a DELETE header line followed directly by the end line is parsed into
\* a DELETE change of that path, and it passes verification: it is listed
\* when the path exists.
C10_DeleteWithoutBody ==
    pc = "processed" =>
        \A i \in Lines :
            (i < Len(text) /\ text[i].k = "hdr" /\ text[i].op = "DELETE"
             /\ text[i + 1].k = "end")
            => /\ \E k \in 1..Len(agent_changes) :
                     /\ agent_changes[k].line = i
                     /\ agent_changes[k].operation = "delete"
                     /\ agent_changes[k].filepath = text[i].path
               /\ Exists(fs, Join(Cwd, text[i].path)) => ListedFrom(i)

----------------------------------------------------------------------------
(* The apply step and the pipeline *)

InApply == pc \in {"apply", "generate", "patch"}

\* the snapshot directory was returned and holds every file the working tree
\* had, .git apart, when apply_changes_to_working was called
SnapshotTaken ==
    /\ backup.ran
    /\ backup.dir = BackupDir
    /\ \A f \in DOMAIN apply_tree :
         ~IsIgnored(f) =>
            /\ Exists(fs, Moved(f, Cwd, BackupDir))
            /\ fs[Moved(f, Cwd, BackupDir)] = apply_tree[f]

SnapshotNonEmpty == FilesUnder(fs, BackupDir) # {}

C2_FailClosed ==
    (backup.ran /\ backup.dir = <<>>) =>
        /\ pc = "done"
        /\ result = "false"
        /\ patch = <<>>
        /\ WorkingTree(fs) = apply_tree

\* a failed snapshot in a call that had files to apply
C2_Witness ==
    /\ backup.ran
    /\ backup.dir = <<>>
    /\ selected_files # <<>>
    /\ \E i \in 1..Len(selected_files) :
         LET w == Join(Cwd, selected_files[i])
             p == Join(preview_dir, selected_files[i])
         IN  Exists(fs, p) /\ (~Exists(fs, w) \/ fs[w] # fs[p])

\* C4: in the change command, every path offered for selection is the path
\* of a change that passed verification, and nothing staged in the preview
\* directory that apply reads comes from inside a block whose hash check
\* failed.
C4_VerifiedOnly ==
    entry = "cli" =>
        /\ \A i \in 1..Len(files_to_modify) :
              \E k \in 1..Len(agent_modified) :
                  agent_modified[k][1] = files_to_modify[i]
        /\ \A w \in staged :
              w.who = "stager" =>
                 ~\E i, j \in Lines :
                      FailingBlock(text, i, j) /\ i < w.line /\ w.line < j

\* C5: the choices of the selection loop, "view diff" among them, leave the
\* existence and the content of every working-tree file as they are.
C5_SelectionWritesNothing ==
    [][pc = "choose" => WorkingTree(fs') = WorkingTree(fs)]_vars

\* C6: every file written by staging, whatever the path in the text, lies
\* inside the preview directory of the stager that wrote it.
C6_StagingConfined ==
    \A w \in staged :
        IsUnder(IF w.who = "agent" THEN AgentPreviewDir ELSE PreviewDir, w.file)

----------------------------------------------------------------------------
(* Deletions *)

\* the k-th entry of response["modified_files"] is a DELETE of file f
DeleteListed(k, f) ==
    /\ k \in 1..Len(agent_modified)
    /\ agent_modified[k][2] = "delete"
    /\ Join(Cwd, agent_modified[k][1]) = f

Selected(f) == \E i \in 1..Len(selected_files) : Join(Cwd, selected_files[i]) = f

\* C11: when apply_changes_to_working returns success and a selected path is
\* that of a DELETE entry whose file was in the working tree, the file is no
\* longer in the working tree and the snapshot of that call holds the
\* original.
C11_DeletionsRealized ==
    (pc = "done" /\ result = "true") =>
        \A f \in DOMAIN apply_tree :
            (Selected(f) /\ \E k \in 1..Len(agent_modified) : DeleteListed(k, f)) =>
                /\ ~Exists(fs, f)
                /\ Exists(fs, Moved(f, Cwd, BackupDir))
                /\ fs[Moved(f, Cwd, BackupDir)] = apply_tree[f]

\* the DELETE change parsed at header line i is an entry of modified_files
DeleteEntryListed(c) ==
    \E j \in 1..Len(agent_modified) :
        agent_src[j] = c.line /\ agent_modified[j] = <<c.filepath, "delete">>

\* C12: a DELETE change is an entry of the modified_files of process_changes
\* exactly when its path is that of a file in the working tree.
C12_DeleteNoOp ==
    pc = "processed" =>
        \A k \in 1..Len(agent_changes) :
            agent_changes[k].operation = "delete" =>
                (DeleteEntryListed(agent_changes[k])
                    <=> Join(Cwd, agent_changes[k].filepath) \in DOMAIN start_tree)

\* a response with a DELETE of a file that exists, listed, and one with a
\* DELETE of a file that does not, left out
C12_Witness ==
    /\ pc = "processed"
    /\ entry = "agent"
    /\ \E k \in 1..Len(agent_changes) :
         /\ agent_changes[k].operation = "delete"
         /\ DeleteEntryListed(agent_changes[k])
         /\ Join(Cwd, agent_changes[k].filepath) \in DOMAIN start_tree

C12_WitnessAbsent ==
    /\ pc = "processed"
    /\ entry = "agent"
    /\ \E k \in 1..Len(agent_changes) :
         /\ agent_changes[k].operation = "delete"
         /\ ~DeleteEntryListed(agent_changes[k])
         /\ Join(Cwd, agent_changes[k].filepath) \notin DOMAIN start_tree

----------------------------------------------------------------------------
(* The result of apply *)

\* the working file of selected path p holds what the preview file of p holds
Applied(p) ==
    /\ Exists(fs, Join(preview_dir, p))
    /\ Exists(fs, Join(Cwd, p))
    /\ fs[Join(Cwd, p)] = fs[Join(preview_dir, p)]

\* C13: when apply_changes_to_working returned true for a non-empty
\* selection, every selected path holds in the working tree the content it
\* holds in the preview directory; and when patch ended with a non-zero
\* status, the call returned false.
C13_SuccessMeansApplied ==
    pc = "done" =>
        /\ (result = "true" /\ selected_files # <<>>) =>
               \A i \in 1..Len(selected_files) : Applied(selected_files[i])
        /\ (patch_rc # <<>> /\ patch_rc[1] # 0) => result = "false"

\* C14: apply_changes_to_working creates, changes or deletes only
\* working-tree files of selected paths: every other file of the working
\* tree exists and holds after the call, successful or not, what it did when
\* the call began.
C14_OnlySelectedChange ==
    pc = "done" =>
        \A f \in DOMAIN apply_tree \cup DOMAIN WorkingTree(fs) :
            ~Selected(f) =>
                /\ f \in DOMAIN apply_tree
                /\ Exists(fs, f)
                /\ fs[f] = apply_tree[f]

----------------------------------------------------------------------------
(* The selection loop *)

\* the loop has ended with a selection
SelectionMade == entry \in {"cli", "legacy"} /\ pc \in {"apply", "generate", "patch", "done"}

\* C15: when the loop ends with 'y', the selection is the modified_files list
\* staging returned, in its order; when it ends with the number k, the
\* selection is the k-th entry of that list alone.
C15_SelectionCorrect ==
    SelectionMade =>
        /\ choice.key = "y" => selected_files = modified_files
        /\ choice.key = "digit" =>
               /\ choice.idx \in 1..Len(modified_files)
               /\ selected_files = <<modified_files[choice.idx]>>

\* an input that is none of y, d, q and no index of the list offered
InvalidInput(c) ==
    /\ c.key \notin {"y", "d", "q"}
    /\ ~(c.key = "digit" /\ c.idx \in 1..Len(files_to_modify))

\* C16: an index of 0, an index above the length of the list, and any input
\* other than y, d, q or a number leave the loop at the prompt: no selection
\* is made, no backup is taken, apply is not started, nothing else changes.
C16_InvalidInputReprompts ==
    [][(pc = "choose" /\ InvalidInput(choice')) =>
          /\ pc' = "choose"
          /\ UNCHANGED <<text, fs, entry, agent_vars, staged, stage_vars, apply_vars>>]_vars

\* C17: once 'q' is entered the run is cancelled and stays so: no backup was
\* or is taken, apply_changes_to_working was not and is not called, and the
\* working tree is as it was when the run started.
C17_QuitIsTerminal ==
    [][pc' = "cancelled" =>
          /\ choice' = Input("q", 0)
          /\ backup' = NoBackup
          /\ result' = "none"
          /\ selected_files' = <<>>
          /\ WorkingTree(fs') = start_tree
          /\ pc = "cancelled" => UNCHANGED vars]_vars

----------------------------------------------------------------------------
(* The preview directory across runs *)

\* C18: a run stages into a directory no earlier run used, and the preview
\* directory of an earlier run keeps every file that run staged, with its
\* content.
C18_PreviewNeverReused ==
    earlier.ran =>
        /\ preview_dir # <<>> => preview_dir # earlier.dir
        /\ \A f \in DOMAIN earlier.files :
              Exists(fs, f) /\ fs[f] = earlier.files[f]

----------------------------------------------------------------------------
(* Staging *)

\* the directory dir holds the files of tree, ignored ones apart, each with
\* its content, and no other file
PreviewIsCopy(dir, tree) ==
    /\ \A f \in DOMAIN tree :
          ~IsIgnored(f) =>
             /\ Exists(fs, Moved(f, Cwd, dir))
             /\ fs[Moved(f, Cwd, dir)] = tree[f]
    /\ \A g \in FilesUnder(fs, dir) :
          \E f \in DOMAIN tree : ~IsIgnored(f) /\ Moved(f, Cwd, dir) = g

NoSection == \A i \in Lines : text[i].k # "sec"

\* apply_changes_to_preview has just returned with success
JustStaged ==
    /\ preview_dir = PreviewDir
    /\ choice.key = "none"
    /\ pc \in {"choose", "apply", "end"}

\* C19: staging no change at all, by process_changes or by
\* apply_changes_to_preview, gives a preview directory that holds exactly the
\* files of the working tree, ignored ones apart, with their content, and an
\* empty list of modified files.
C19_EmptyStagingIsCopy ==
    /\ (entry \in {"agent", "cli"} /\ pc = "processed" /\ agent_changes = <<>>) =>
           /\ agent_modified = <<>>
           /\ PreviewIsCopy(AgentPreviewDir, WorkingTree(fs))
    /\ (JustStaged /\ NoSection) =>
           /\ modified_files = <<>>
           /\ PreviewIsCopy(PreviewDir, WorkingTree(fs))

\* C19 for apply_changes_to_preview alone
StagerEmptyIsCopy ==
    (JustStaged /\ NoSection) =>
        /\ modified_files = <<>>
        /\ PreviewIsCopy(PreviewDir, WorkingTree(fs))

\* C20: once a copy or a write has raised while the preview workspace was
\* built, apply_changes_to_preview has reported failure with no preview path
\* and an empty modified list, the run has ended, no choice was ever read,
\* nothing was selected, and no step of apply_changes_to_working (backup,
\* patch generation, patch run) has been taken; the programmatic entry
\* answers False.
C20_StagingFailureFatal ==
    io_failed =>
        /\ preview_success = "false"
        /\ preview_dir = <<>>
        /\ modified_files = <<>>
        /\ pc = "end"
        /\ choice = Input("none", 0)
        /\ selected_files = <<>>
        /\ backup = NoBackup
        /\ patch = <<>>
        /\ patch_rc = <<>>
        /\ result = (IF entry = "api" THEN "false" ELSE "none")

\* a write raised after an earlier section had been written into the preview
\* directory: a partially built workspace is on disk
C20_Witness ==
    /\ io_failed
    /\ \E w \in staged : w.who = "stager" /\ Exists(fs, w.file)
    /\ FilesUnder(fs, PreviewDir) # {}

----------------------------------------------------------------------------
(* Test commands *)

TestFailed == \E k \in 1..Len(tests_run) : tests_run[k].rc # 0

\* the test commands ran in the order collected, the first failing one was
\* the last to run, staging reported failure, and no step of
\* apply_changes_to_working was taken
TestFailureSkipsApply ==
    /\ \A k \in 1..Len(tests_run) :
          /\ k <= Len(test_cmds) /\ tests_run[k].cmd = test_cmds[k]
          /\ tests_run[k].rc # 0 => k = Len(tests_run) /\ preview_success = "false"
    /\ TestFailed =>
          /\ pc = "end"
          /\ selected_files = <<>>
          /\ backup = NoBackup
          /\ patch = <<>>
          /\ patch_rc = <<>>
          /\ result = (IF entry = "api" THEN "false" ELSE "none")

\* C21: the test commands collected from the staged bodies run in order in
\* the preview workspace; the first that exits non-zero stops the sequence
\* and makes staging report failure; in that run apply_changes_to_working is
\* never called and the working tree is as it was when the run started.
C21_FailingTestAborts ==
    /\ TestFailureSkipsApply
    /\ TestFailed => WorkingTree(fs) = start_tree

----------------------------------------------------------------------------
(* The order of the stages *)

\* apply_changes_to_working has been called
ApplyCalled == pc \in {"apply", "generate", "patch", "done"}

\* the operator ended the prompt with 'y' or with the number of a file
OperatorSelected == choice.key \in {"y", "digit"}

\* C22: the working tree is written, and apply_changes_to_working is
\* called, only after staging succeeded and the operator made a selection;
\* patch runs only after the backup was taken.
C22_StageOrdering ==
    /\ ApplyCalled => preview_success = "true" /\ OperatorSelected
    /\ patch_rc # <<>> => backup.ran /\ backup.dir # <<>>
    /\ WorkingTree(fs) # start_tree => preview_success = "true" /\ OperatorSelected

\* the order holds for the calls the two command lines make
CommandLineOrdering ==
    entry \in {"cli", "legacy"} =>
        /\ ApplyCalled => preview_success = "true" /\ OperatorSelected
        /\ patch_rc # <<>> => backup.ran /\ backup.dir # <<>>

----------------------------------------------------------------------------
(* Snapshots *)

\* C23: an apply attempt takes its snapshot in a directory no other apply
\* attempt uses, and the snapshot of an earlier attempt keeps every file
\* with the content the working tree had before that attempt.
C23_SnapshotsPermanent ==
    earlier_backup.ran =>
        /\ backup.dir # <<>> => backup.dir # earlier_backup.dir
        /\ \A f \in DOMAIN earlier_backup.files :
              Exists(fs, f) /\ fs[f] = earlier_backup.files[f]

\* a snapshot taken in another clock second is kept
OtherSecondKept ==
    earlier_backup.ran /\ earlier_backup.dir # BackupDir =>
        \A f \in DOMAIN earlier_backup.files :
            Exists(fs, f) /\ fs[f] = earlier_backup.files[f]

----------------------------------------------------------------------------
(* Errors of diff *)

PreviewFiles(files) == [f \in FilesUnder(files, preview_dir) |-> files[f]]

\* a step of _generate_patch_file in which diff ended with a status above 1
DiffFails == pc = "generate" /\ diff_error'

\* C24: when diff fails for a selected path, apply_changes_to_working
\* returns failure, and the preview workspace is as it was staged.
C24_DiffErrorIsFailure ==
    [][DiffFails => result' = "false" /\ PreviewFiles(fs') = PreviewFiles(fs)]_vars

\* the preview workspace is as it was staged
DiffErrorKeepsPreview == [][DiffFails => PreviewFiles(fs') = PreviewFiles(fs)]_vars

----------------------------------------------------------------------------
(* The attempts of patch *)

\* C25: when the first run of patch ends with a non-zero status, a second
\* run is made before apply_changes_to_working returns, and failure is
\* returned only after two failed runs.
C25_PatchRetried ==
    /\ pc = "done" /\ patch_rc # <<>> /\ patch_rc[1] # 0 => Len(patch_rc) >= 2
    /\ pc = "done" /\ patch_rc # <<>> /\ result = "false" =>
          Len(patch_rc) >= 2 /\ \A k \in 1..Len(patch_rc) : patch_rc[k] # 0

----------------------------------------------------------------------------
(* What a failed apply leaves *)

ApplyFailed == pc = "done" /\ result = "false"

\* C26: after apply_changes_to_working returned failure, the preview
\* workspace holds the files it held when the call was made, with their
\* content, and the snapshot directory, if one was returned, holds the files
\* it held when _create_backup returned, with their content.
C26_FailedApplyKeeps ==
    ApplyFailed =>
        /\ TreeAt(fs, preview_dir) = at_apply.preview
        /\ backup.dir # <<>> => TreeAt(fs, backup.dir) = at_apply.snapshot

\* patch failed after it had written the working tree, with a snapshot taken
\* and files staged
C26_Witness ==
    /\ ApplyFailed
    /\ backup.dir # <<>>
    /\ at_apply.snapshot # <<>>
    /\ at_apply.preview # <<>>
    /\ patch_rc = <<2>>
    /\ WorkingTree(fs) # apply_tree

----------------------------------------------------------------------------
(* The list of modified files *)

----------------------------------------------------------------------------
(* The registry under two processes *)

\* the registry file holds what the call of process p recorded
Recorded(p) ==
    LET call == rproc[p].call
    IN  IF call.op = "switch"
        THEN \E k \in 1..Len(registry.switches) :
                 registry.switches[k].from = call.from /\ registry.switches[k].to = call.to
        ELSE call.llm \in DOMAIN registry.rate_limits

BothDone == \A p \in Procs : rproc[p].pc = "done"

\* C28: when two processes have each completed a record_switch or a
\* record_rate_limit, the registry file holds the effect of both calls.
C28_NoLostUpdates == BothDone => \A p \in Procs : Recorded(p)

\* the lock is held by one process at a time, and only while it reads or
\* writes the file
LockExcludes ==
    \A p \in Procs : rproc[p].pc \in {"loading", "saving"} <=> lock = p

----------------------------------------------------------------------------
(* Rate limits *)

\* C29: when the backend call of the last _send_message raised a rate-limit
\* error, the registry holds a rate-limit entry for that backend and the
\* call raised the rate-limit error; when the backend had an unexpired entry
\* at the call, the call raised the rate-limit error without calling the
\* backend.
C29_RateLimitRecorded ==
    /\ send.backend = "rate_limit" =>
          send.llm \in DOMAIN registry.rate_limits /\ send.raised = "LLMRateLimitError"
    /\ send.limited => send.backend = "none" /\ send.raised = "LLMRateLimitError"

\* an unexpired entry stops the call before the backend, and the entry stays
LimitEnforced ==
    send.limited =>
        /\ send.backend = "none"
        /\ send.raised = "LLMRateLimitError"
        /\ send.llm \in DOMAIN registry.rate_limits

----------------------------------------------------------------------------
(* Bounded retry *)

\* the function was invoked at most max_retries times; a returned result is
\* that of the first invocation that succeeded; an exception is raised when
\* max_retries invocations failed, and is that of the last; the first wait
\* lies between the first two invocations and is initial_delay, and every
\* later one is the double of the wait before it, cut at max_delay
RetryBounded ==
    /\ Len(retry.outcomes) <= retry.max_retries
    /\ \A k \in 1..Len(retry.outcomes) :
          retry.outcomes[k] = "returned" =>
              /\ k = Len(retry.outcomes)
              /\ retry.pc = "done"
              /\ retry.result = [kind |-> "return", of |-> k]
    /\ (/\ Len(retry.outcomes) = retry.max_retries
        /\ \A k \in 1..Len(retry.outcomes) : retry.outcomes[k] = "raised")
          => retry.pc = "done" /\ retry.result = [kind |-> "raise", of |-> retry.max_retries]
    /\ retry.pc = "done" => retry.result.kind \in {"return", "raise"}
    /\ Len(retry.waits) = (IF retry.pc = "call" THEN Len(retry.outcomes)
                           ELSE Len(retry.outcomes) - 1)
    /\ \A k \in 1..Len(retry.waits) :
          /\ k = 1 => retry.waits[k] = retry.initial_delay
          /\ k > 1 => /\ retry.waits[k] = Min(2 * retry.waits[k - 1], retry.max_delay)
                      /\ retry.waits[k] <= retry.max_delay

\* C30: a call of the wrapper invokes the function at most max_retries
\* times, returns the result of the first invocation that succeeds, raises
\* the exception of the last invocation when all max_retries fail, waits
\* initial_delay and then doubled waits cut at max_delay, and terminates.
C30_BoundedRetry == []RetryBounded /\ <>(retry.pc = "done")

\* all of three invocations failed, the second wait was cut at max_delay,
\* and the exception of the third invocation was raised
C30_Witness ==
    /\ retry.pc = "done"
    /\ retry.max_retries = 3
    /\ retry.outcomes = <<"raised", "raised", "raised">>
    /\ retry.result = [kind |-> "raise", of |-> 3]
    /\ retry.waits = <<2, 3>>

=============================================================================
